---- MODULE Spec2Model ----
(***************************************************************************)
(* A model of the bindist Python client: the envelope decoder              *)
(* (ApiResponse.from_response), the session transport (BaseClient), the    *)
(* three-step large-file upload (AdminClient.upload_large_file) and the    *)
(* checksum-verified download (CustomerClient.download_file).              *)
(*                                                                         *)
(* One client instance runs one call at a time.  Every network exchange is *)
(* one step whose answer (an HTTP response or a transport exception) is    *)
(* chosen by the environment.                                              *)
(***************************************************************************)
EXTENDS Naturals, Sequences, FiniteSets, TLC

VARIABLES
    pc,                 \* position of the running call ("idle" when none runs)
    args,               \* arguments of the running call
    file_size,          \* upload_large_file: local file_size
    checksum,           \* upload_large_file: local checksum
    url_response,       \* upload_large_file / download_file: local url_response
    upload_id,          \* upload_large_file: local upload_id
    upload_url,         \* upload_large_file: local upload_url
    s3_response,        \* upload_large_file: local s3_response
    download_url,       \* download_file: local download_url
    expected_checksum,  \* download_file: local expected_checksum
    metadata,           \* download_file: local metadata
    content,            \* download_file: local content
    s3_object,          \* the bytes the storage kept of the last PUT
    http_log,           \* the HTTP requests issued since the call started, each
                        \* with the arguments of the client method that issued it
                        \* and with the answer of the network
    result              \* outcome of the call: a return value or a raised exception

vars == <<pc, args, file_size, checksum, url_response, upload_id, upload_url,
          s3_response, download_url, expected_checksum, metadata, content,
          s3_object, http_log, result>>

----------------------------------------------------------------------------
(* Bounds of the model.                                                    *)

\* longest file content, in bytes
MaxLen == 2

----------------------------------------------------------------------------
(* Python values.  Every value carries its type in field t, so that values *)
(* of different types are comparable.                                      *)

None == [t |-> "None"]
PyBool(b) == [t |-> "bool", b |-> b]
PyStr(s) == [t |-> "str", s |-> s]
PyInt(n) == [t |-> "int", n |-> n]
PyList(items) == [t |-> "list", items |-> items]
PyDict(d) == [t |-> "dict", d |-> d]

\* a local variable that has not been assigned
Unset == [t |-> "unset"]

\* {} as a Python dict
EmptyMap == [k \in {} |-> None]

\* Python truth value of v, as `not x` and `if x` test it
Truthy(v) ==
    CASE v.t = "None" -> FALSE
      [] v.t = "bool" -> v.b
      [] v.t = "str" -> v.s # ""
      [] v.t = "int" -> v.n # 0
      [] v.t = "list" -> v.items # <<>>
      [] v.t = "dict" -> DOMAIN v.d # {}

\* outcome of a call: it returns a value or raises an exception
Return(v) == [kind |-> "return", value |-> v]
Raise(type, message) == [kind |-> "raise", type |-> type, message |-> message]
NoResult == [kind |-> "none"]

\* d.get(key, default); d is any Python value, and only a dict has .get
DictGet(d, key, default) ==
    IF key \in DOMAIN d.d THEN d.d[key] ELSE default

\* d[key] for a Python value d
Subscript(d, key) ==
    IF d.t # "dict" THEN Raise("TypeError", "not subscriptable with a str key")
    ELSE IF key \in DOMAIN d.d THEN Return(d.d[key])
    ELSE Raise("KeyError", key)

\* order in which str() lists the keys the model's dicts can hold
KeyOrder == <<"success", "data", "error", "meta", "code", "message">>

\* str(v), as an f-string formats v (None, bool, str and dict values)
RECURSIVE PyFormat(_)
PyFormat(v) ==
    CASE v.t = "None" -> "None"
      [] v.t = "bool" -> IF v.b THEN "True" ELSE "False"
      [] v.t = "str" -> v.s
      [] v.t = "dict" ->
            LET keys == SelectSeq(KeyOrder, LAMBDA k : k \in DOMAIN v.d)
                RECURSIVE Items(_)
                Items(i) ==
                    IF i > Len(keys) THEN ""
                    ELSE (IF i > 1 THEN ", " ELSE "") \o "'" \o keys[i] \o "': "
                         \o (IF v.d[keys[i]].t = "str"
                             THEN "'" \o v.d[keys[i]].s \o "'"
                             ELSE PyFormat(v.d[keys[i]]))
                         \o Items(i + 1)
            IN "{" \o Items(1) \o "}"

----------------------------------------------------------------------------
(* File contents and their SHA-256 digests.                                *)

Byte == {0, 1}

RECURSIVE SeqsUpTo(_)
SeqsUpTo(n) ==
    IF n = 0 THEN {<<>>}
    ELSE LET shorter == SeqsUpTo(n - 1)
         IN shorter \cup {Append(s, b) : s \in {x \in shorter : Len(x) = n - 1}, b \in Byte}

\* the byte strings a file can hold
FileContents == SeqsUpTo(MaxLen)

\* hashlib.sha256(file_content).hexdigest(): the digest of each byte string
\* over Byte of up to three bytes
Sha256Hex(file_content) ==
    CASE file_content = <<>> -> "e3b0c44298fc1c149afbf4c8996fb92427ae41e4649b934ca495991b7852b855"
      [] file_content = <<0>> -> "6e340b9cffb37a989ca544e6bb780a2c78901d3fb33738768511a30617afa01d"
      [] file_content = <<1>> -> "4bf5122f344554c53bde2ebb8cd2b7e3d1600ad631c385a5d7cce23c7785459a"
      [] file_content = <<0, 0>> -> "96a296d224f285c67bee93c30f8a309157f0daa35dc5b87e410b78630a09cfc7"
      [] file_content = <<0, 1>> -> "b413f47d13ee2fe6c845b2ee141af81de858df4ec549a58b7970bb96645bc8d2"
      [] file_content = <<1, 0>> -> "47dc540c94ceb704a23875c11273e16bb0b8a87aed84de911f2133568115f254"
      [] file_content = <<1, 1>> -> "9dcf97a184f32623d11a73124ceb99a5709b083721e878a16d78f596718ba7b2"
      [] file_content = <<0, 0, 0>> -> "709e80c88487a2411e1ee4dfb9f22a861492d20c4765150c0c794abd70f8147c"
      [] file_content = <<0, 0, 1>> -> "cf7605ed1bc735f6c825554154627467e1cac9df54cee8699218ed434603c568"
      [] file_content = <<0, 1, 0>> -> "faee935763044f124d7526755a5058a33f9402a595994d59eddd4be8546ff201"
      [] file_content = <<0, 1, 1>> -> "fbb59ed10e9cd4ff45a12c5bb92cbd80df984ba1fe60f26a30febf218e2f0f5e"
      [] file_content = <<1, 0, 0>> -> "fb50dc0717ff266cf9baf82b1ce7a1c2ef6d9247859680b11a19fb7077f5f222"
      [] file_content = <<1, 0, 1>> -> "85f90dfea1d8027e1463e5ca971a250110a20df0119d204a74220bc63516d15b"
      [] file_content = <<1, 1, 0>> -> "9f44ac6acb8a37b00b615dc89259d306035be82dee7db2b472e4c48326195440"
      [] file_content = <<1, 1, 1>> -> "75c8fd04ad916aec3e3d5cb76a452b116b3d4d0912a0a485e9fb8e3d240e210c"

----------------------------------------------------------------------------
(* requests.Response and the envelope decoder.                             *)

\* a requests.Response: its status, its body text, and what .json() does
\* with the body (returns the decoded value, or raises JSONDecodeError)
HttpResponse(status_code, body) ==
    [status_code |-> status_code, text |-> body.text, json |-> body.json]

JsonBody(text, value) == [text |-> text, json |-> Return(value)]
TextBody(text) == [text |-> text, json |-> Raise("JSONDecodeError", text)]

\* transport status codes of the control-plane API
ApiStatus == {200, 403}

ApiResponse(success, status_code, data, error, meta, raw) ==
    [success |-> success, status_code |-> status_code, data |-> data,
     error |-> error, meta |-> meta, raw |-> raw]

\* from_response without its except clause: the decode error escapes
from_response_NoCatch(resp) ==
    IF resp.json.kind = "raise" THEN resp.json
    ELSE IF resp.json.value.t # "dict"
    THEN Raise("AttributeError", "object has no attribute 'get'")
    ELSE Return(ApiResponse(DictGet(resp.json.value, "success", PyBool(FALSE)),
                            resp.status_code,
                            DictGet(resp.json.value, "data", None),
                            DictGet(resp.json.value, "error", None),
                            DictGet(resp.json.value, "meta", None),
                            resp.json.value))

\* from_response with raw set to {error: text} on a decode error, the shape
\* upload_large_file gives a failed storage PUT
from_response_RawError(resp) ==
    IF resp.json.kind = "raise"
    THEN Return(ApiResponse(PyBool(FALSE), resp.status_code, None,
                            PyDict([message |-> PyStr(resp.text)]), None,
                            PyDict([error |-> PyStr(resp.text)])))
    ELSE from_response_NoCatch(resp)

\* ApiResponse.from_response(response)
from_response(resp) ==
    LET json_data ==
            IF resp.json.kind = "raise"
            THEN PyDict([success |-> PyBool(FALSE),
                         error |-> PyDict([message |-> PyStr(resp.text)])])
            ELSE resp.json.value
    IN IF json_data.t # "dict"
       THEN Raise("AttributeError", "object has no attribute 'get'")
       ELSE Return(ApiResponse(DictGet(json_data, "success", PyBool(FALSE)),
                               resp.status_code,
                               DictGet(json_data, "data", None),
                               DictGet(json_data, "error", None),
                               DictGet(json_data, "meta", None),
                               json_data))

----------------------------------------------------------------------------
(* BaseClient: configuration and transport.                                *)

\* the constructor's arguments
base_url == "https://api.bindist.eu"
api_key == "tenant.secret"

\* self.session.headers after __init__
session_headers ==
    ("Authorization" :> ("Bearer " \o api_key)) @@ ("Content-Type" :> "application/json")

NoHeaders == [k \in {} |-> ""]

\* BaseClient._url(path)
_url(path) == base_url \o "/v1" \o path

\* headers of a request sent through self.session: the session's headers,
\* overridden by the headers of the call
MergeHeaders(headers) == headers @@ session_headers

\* a request issued through self.session by client method fn(call)
SessionRequest(fn, call, method, path, params, json, headers, answer) ==
    [fn |-> fn, call |-> call, via |-> "session", method |-> method,
     url |-> _url(path), headers |-> MergeHeaders(headers), params |-> params,
     json |-> json, data |-> None, answer |-> answer]

\* put_binary / download going through self.session, whose headers then
\* travel with the request
DirectRequest_ThroughSession(fn, call, method, url, headers, data, answer) ==
    [fn |-> fn, call |-> call, via |-> "session", method |-> method, url |-> url,
     headers |-> MergeHeaders(headers), params |-> None, json |-> None,
     data |-> data, answer |-> answer]

\* a request issued with the requests module directly (no session)
DirectRequest(fn, call, method, url, headers, data, answer) ==
    [fn |-> fn, call |-> call, via |-> "requests", method |-> method, url |-> url,
     headers |-> headers, params |-> None, json |-> None, data |-> data,
     answer |-> answer]

\* the transport fails: requests raises, and nothing catches it
ConnectionError == Raise("ConnectionError", "connection refused")

\* bodies the control plane (or a proxy before it) answers a plain call with
EnvelopeBodies ==
    { TextBody("<html>502 Bad Gateway</html>"),
      TextBody(""),
      JsonBody("{}", PyDict(EmptyMap)),
      JsonBody("{\"success\": true}", PyDict([success |-> PyBool(TRUE)])),
      JsonBody("{\"success\": true, \"data\": {}, \"meta\": {}}",
               PyDict([success |-> PyBool(TRUE), data |-> PyDict(EmptyMap),
                       meta |-> PyDict(EmptyMap)])),
      JsonBody("{\"success\": false, \"error\": {\"message\": \"denied\"}}",
               PyDict([success |-> PyBool(FALSE),
                       error |-> PyDict([message |-> PyStr("denied")])])),
      JsonBody("{\"data\": {}, \"code\": \"x\"}",
               PyDict([data |-> PyDict(EmptyMap), code |-> PyStr("x")])),
      JsonBody("{\"success\": null, \"error\": null}",
               PyDict([success |-> None, error |-> None])),
      JsonBody("[]", PyList(<<>>)),
      JsonBody("\"ok\"", PyStr("ok")),
      JsonBody("42", PyInt(42)),
      JsonBody("null", None) }

----------------------------------------------------------------------------
(* What the callers pass and what the servers answer.                      *)

AppIds == {"app1", "app2"}
Versions == {"1.0.0"}
FileNames == {"setup.exe"}
ReleaseNotes == {None, PyStr(""), PyStr("first release")}

\* an answer of the network to a request: the transport raises, or one of
\* the given responses arrives
Outcomes(responses) == {ConnectionError} \cup {Return(r) : r \in responses}

\* bodies of the answers to POST /management/upload/large-url
UploadUrlBodies ==
    { TextBody("<html>502 Bad Gateway</html>"),
      JsonBody("[]", PyList(<<>>)),
      JsonBody("{\"success\": false, \"error\": {\"message\": \"quota exceeded\"}}",
               PyDict([success |-> PyBool(FALSE),
                       error |-> PyDict([message |-> PyStr("quota exceeded")])])),
      JsonBody("{\"success\": false, \"data\": {\"uploadId\": \"u1\", \"uploadUrl\": \"https://s3.example/u1\"}}",
               PyDict([success |-> PyBool(FALSE),
                       data |-> PyDict([uploadId |-> PyStr("u1"),
                                        uploadUrl |-> PyStr("https://s3.example/u1")])])),
      JsonBody("{\"data\": {\"uploadId\": \"u1\", \"uploadUrl\": \"https://s3.example/u1\"}}",
               PyDict([data |-> PyDict([uploadId |-> PyStr("u1"),
                                        uploadUrl |-> PyStr("https://s3.example/u1")])])),
      JsonBody("{\"success\": true, \"data\": {\"uploadId\": \"u1\", \"uploadUrl\": \"https://s3.example/u1\"}}",
               PyDict([success |-> PyBool(TRUE),
                       data |-> PyDict([uploadId |-> PyStr("u1"),
                                        uploadUrl |-> PyStr("https://s3.example/u1")])])),
      JsonBody("{\"success\": true, \"data\": {\"uploadId\": \"u2\", \"uploadUrl\": \"https://s3.example/u2\"}, \"meta\": {}}",
               PyDict([success |-> PyBool(TRUE),
                       data |-> PyDict([uploadId |-> PyStr("u2"),
                                        uploadUrl |-> PyStr("https://s3.example/u2")]),
                       meta |-> PyDict(EmptyMap)])),
      JsonBody("{\"success\": true}", PyDict([success |-> PyBool(TRUE)])),
      JsonBody("{\"success\": true, \"data\": null}",
               PyDict([success |-> PyBool(TRUE), data |-> None])),
      JsonBody("{\"success\": true, \"data\": {}}",
               PyDict([success |-> PyBool(TRUE), data |-> PyDict(EmptyMap)])),
      JsonBody("{\"success\": true, \"data\": {\"uploadId\": \"u1\"}}",
               PyDict([success |-> PyBool(TRUE),
                       data |-> PyDict([uploadId |-> PyStr("u1")])])),
      JsonBody("{\"success\": true, \"data\": []}",
               PyDict([success |-> PyBool(TRUE), data |-> PyList(<<>>)])) }

\* answers of the storage to the pre-signed PUT: status and body text
S3Status == {200, 204, 403, 500}
S3Texts == {"", "<Error>AccessDenied</Error>"}
S3PutResponses == {[status_code |-> st, text |-> t] : st \in S3Status, t \in S3Texts}

\* bodies of the answers to POST /management/upload/large-complete
CompleteBodies ==
    { TextBody("<html>502 Bad Gateway</html>"),
      JsonBody("[]", PyList(<<>>)),
      JsonBody("{\"success\": true, \"data\": {\"code\": \"created\"}}",
               PyDict([success |-> PyBool(TRUE),
                       data |-> PyDict([code |-> PyStr("created")])])),
      JsonBody("{\"success\": false, \"error\": {\"message\": \"checksum mismatch\"}}",
               PyDict([success |-> PyBool(FALSE),
                       error |-> PyDict([message |-> PyStr("checksum mismatch")])])) }

ApiResponses(bodies) == {HttpResponse(st, b) : st \in ApiStatus, b \in bodies}

----------------------------------------------------------------------------
(* BaseClient.get / post / patch / delete.                                 *)

\* what a session call returns for an answer of the network: the transport's
\* exception, or ApiResponse.from_response(response)
Decode(outcome) ==
    IF outcome.kind = "raise" THEN outcome ELSE from_response(outcome.value)

\* the locals of a call before they are assigned
FreshUploadLocals ==
    /\ url_response' = Unset
    /\ upload_id' = Unset
    /\ upload_url' = Unset
    /\ s3_response' = Unset

FreshDownloadLocals ==
    /\ download_url' = Unset
    /\ expected_checksum' = Unset
    /\ metadata' = Unset
    /\ content' = Unset

FreshLocals ==
    /\ file_size' = Unset
    /\ checksum' = Unset
    /\ FreshUploadLocals
    /\ FreshDownloadLocals

\* a call made of one request through the session
SessionCall(fn, method, path, params, json, headers) ==
    /\ args' = [fn |-> fn, path |-> path, params |-> params, json |-> json,
                headers |-> headers]
    /\ FreshLocals
    /\ \E outcome \in Outcomes(ApiResponses(EnvelopeBodies)) :
          /\ http_log' = <<SessionRequest(fn, args', method, path, params, json,
                                          headers, outcome)>>
          /\ result' = Decode(outcome)
    /\ pc' = "done"
    /\ UNCHANGED s3_object

Paths == {"/applications"}
QueryParams == {None, PyDict([page |-> PyInt(1), pageSize |-> PyInt(20)])}
JsonPayloads == {None, PyDict([name |-> PyStr("n")])}
CallHeaders == {NoHeaders, "X-Channel" :> "Test"}

\* BaseClient.get(path, params, headers)
get ==
    /\ pc = "idle"
    /\ \E path \in Paths, params \in QueryParams, headers \in CallHeaders :
          SessionCall("get", "GET", path, params, None, headers)

\* BaseClient.post(path, json, headers)
post ==
    /\ pc = "idle"
    /\ \E path \in Paths, json \in JsonPayloads, headers \in CallHeaders :
          SessionCall("post", "POST", path, None, json, headers)

\* BaseClient.patch(path, json, headers)
patch ==
    /\ pc = "idle"
    /\ \E path \in Paths, json \in JsonPayloads, headers \in CallHeaders :
          SessionCall("patch", "PATCH", path, None, json, headers)

\* BaseClient.delete(path, headers)
delete ==
    /\ pc = "idle"
    /\ \E path \in Paths, headers \in CallHeaders :
          SessionCall("delete", "DELETE", path, None, None, headers)

----------------------------------------------------------------------------
(* AdminClient.upload_large_file.                                          *)

\* payload of get_large_upload_url
LargeUploadUrlPayload(application_id, version, file_name, fsize, content_type) ==
    PyDict([applicationId |-> PyStr(application_id), version |-> PyStr(version),
            fileName |-> PyStr(file_name), fileSize |-> fsize,
            contentType |-> PyStr(content_type)])

\* payload of complete_large_upload
CompleteUploadPayload(uid, application_id, version, file_name, fsize, csum, release_notes) ==
    LET payload == [uploadId |-> uid, applicationId |-> PyStr(application_id),
                    version |-> PyStr(version), fileName |-> PyStr(file_name),
                    fileSize |-> fsize, checksum |-> csum]
    IN PyDict(IF Truthy(release_notes)
              THEN payload @@ [releaseNotes |-> release_notes]
              ELSE payload)

\* the arguments upload_large_file passes to get_large_upload_url; content_type
\* is left to its default
LargeUploadUrlCall(application_id, version, file_name, fsize) ==
    [application_id |-> application_id, version |-> version, file_name |-> file_name,
     file_size |-> fsize, content_type |-> "application/octet-stream"]

\* complete_large_upload called without the release notes
CompleteUploadCall_NotesDropped(uid, application_id, version, file_name, fsize, csum, release_notes) ==
    [upload_id |-> uid, application_id |-> application_id, version |-> version,
     file_name |-> file_name, file_size |-> fsize, checksum |-> csum,
     release_notes |-> None]

\* the arguments upload_large_file passes to complete_large_upload
CompleteUploadCall(uid, application_id, version, file_name, fsize, csum, release_notes) ==
    [upload_id |-> uid, application_id |-> application_id, version |-> version,
     file_name |-> file_name, file_size |-> fsize, checksum |-> csum,
     release_notes |-> release_notes]

\* file_size = len(file_content)
FileSizeOf(file_content) == PyInt(Len(file_content))

\* the digest of a hash object the content was never fed to
ChecksumOf_NothingHashed(file_content) == PyStr(Sha256Hex(<<>>))

\* checksum = hashlib.sha256(file_content).hexdigest()
ChecksumOf(file_content) == PyStr(Sha256Hex(file_content))

\* the test after step 1 without its first half
UploadUrlFailed_DataOnly(r) == r.data = None

\* the test after step 1: not url_response.success or url_response.data is None
UploadUrlFailed(r) == ~Truthy(r.success) \/ r.data = None

\* the test after step 2 taking every status below 400 for a success
S3Failed_ErrorStatusOnly(r) == r.status_code >= 400

\* the test after step 2: s3_response.status_code != 200
S3Failed(r) == r.status_code # 200

\* the ApiResponse upload_large_file makes of a failed storage PUT
S3FailureResponse(r) ==
    ApiResponse(PyBool(FALSE), r.status_code, None,
                PyDict([message |-> PyStr("S3 upload failed: " \o r.text)]),
                None,
                PyDict([error |-> PyStr(r.text)]))

\* the call starts: file_size and checksum are computed
upload_large_file ==
    /\ pc = "idle"
    /\ \E application_id \in AppIds, version \in Versions, file_name \in FileNames,
          file_content \in FileContents, release_notes \in ReleaseNotes :
          /\ args' = [fn |-> "upload_large_file", application_id |-> application_id,
                      version |-> version, file_name |-> file_name,
                      file_content |-> file_content, release_notes |-> release_notes]
          /\ file_size' = FileSizeOf(file_content)
          /\ checksum' = ChecksumOf(file_content)
    /\ FreshUploadLocals
    /\ FreshDownloadLocals
    /\ http_log' = <<>>
    /\ pc' = "get_large_upload_url"
    /\ UNCHANGED <<s3_object, result>>

\* step 1: get_large_upload_url, and the reading of its answer
UploadGetUrl ==
    /\ pc = "get_large_upload_url"
    /\ \E outcome \in Outcomes(ApiResponses(UploadUrlBodies)) :
          LET call == LargeUploadUrlCall(args.application_id, args.version,
                                         args.file_name, file_size)
              r == Decode(outcome)
              uid == Subscript(r.value.data, "uploadId")
              uurl == Subscript(r.value.data, "uploadUrl")
          IN /\ http_log' = Append(http_log,
                    SessionRequest("get_large_upload_url", call, "POST",
                        "/management/upload/large-url", None,
                        LargeUploadUrlPayload(call.application_id, call.version,
                            call.file_name, call.file_size, call.content_type),
                        NoHeaders, outcome))
             /\ url_response' = IF r.kind = "raise" THEN url_response ELSE r.value
             /\ IF r.kind = "raise"
                THEN /\ result' = r
                     /\ pc' = "done"
                     /\ UNCHANGED <<upload_id, upload_url>>
                ELSE IF UploadUrlFailed(r.value)
                THEN /\ result' = Return(r.value)
                     /\ pc' = "done"
                     /\ UNCHANGED <<upload_id, upload_url>>
                ELSE IF uid.kind = "raise"
                THEN /\ result' = uid
                     /\ pc' = "done"
                     /\ UNCHANGED <<upload_id, upload_url>>
                ELSE IF uurl.kind = "raise"
                THEN /\ upload_id' = uid.value
                     /\ result' = uurl
                     /\ pc' = "done"
                     /\ UNCHANGED upload_url
                ELSE /\ upload_id' = uid.value
                     /\ upload_url' = uurl.value
                     /\ pc' = "put_binary"
                     /\ UNCHANGED result
    /\ UNCHANGED <<args, file_size, checksum, s3_response, download_url,
                   expected_checksum, metadata, content, s3_object>>

\* step 2: put_binary to the pre-signed URL, and the test of its status
UploadPutBinary ==
    /\ pc = "put_binary"
    /\ \E outcome \in Outcomes(S3PutResponses), kept \in FileContents :
          LET call == [url |-> upload_url, data |-> args.file_content,
                       content_type |-> "application/octet-stream"]
          IN /\ http_log' = Append(http_log,
                    DirectRequest("put_binary", call, "PUT", call.url.s,
                        "Content-Type" :> call.content_type, call.data, outcome))
             /\ IF outcome.kind = "raise"
                THEN /\ result' = outcome
                     /\ pc' = "done"
                     /\ UNCHANGED <<s3_response, s3_object>>
                ELSE /\ s3_response' = outcome.value
                     /\ IF S3Failed(outcome.value)
                        THEN /\ result' = Return(S3FailureResponse(outcome.value))
                             /\ pc' = "done"
                             /\ UNCHANGED s3_object
                        ELSE /\ s3_object' = kept
                             /\ pc' = "complete_large_upload"
                             /\ UNCHANGED result
    /\ UNCHANGED <<args, file_size, checksum, url_response, upload_id, upload_url,
                   download_url, expected_checksum, metadata, content>>

\* step 3: complete_large_upload; its result is the result of the call
UploadComplete ==
    /\ pc = "complete_large_upload"
    /\ \E outcome \in Outcomes(ApiResponses(CompleteBodies)) :
          LET call == CompleteUploadCall(upload_id, args.application_id, args.version,
                                         args.file_name, file_size, checksum,
                                         args.release_notes)
          IN /\ http_log' = Append(http_log,
                    SessionRequest("complete_large_upload", call, "POST",
                        "/management/upload/large-complete", None,
                        CompleteUploadPayload(call.upload_id, call.application_id,
                            call.version, call.file_name, call.file_size,
                            call.checksum, call.release_notes),
                        NoHeaders, outcome))
             /\ result' = Decode(outcome)
    /\ pc' = "done"
    /\ UNCHANGED <<args, file_size, checksum, url_response, upload_id, upload_url,
                   s3_response, download_url, expected_checksum, metadata, content,
                   s3_object>>

----------------------------------------------------------------------------
(* CustomerClient.download_file.                                           *)

FileIds == {None, PyStr("f1")}

\* the digest of the empty file and of <<1>>, in upper-case hex digits
UpperDigests ==
    { "E3B0C44298FC1C149AFBF4C8996FB92427AE41E4649B934CA495991B7852B855",
      "4BF5122F344554C53BDE2EBB8CD2B7E3D1600AD631C385A5D7CCE23C7785459A" }

\* s.lower(), for the strings of UpperDigests (any other string is left as it is)
HexLower(s) ==
    CASE s = "E3B0C44298FC1C149AFBF4C8996FB92427AE41E4649B934CA495991B7852B855"
            -> "e3b0c44298fc1c149afbf4c8996fb92427ae41e4649b934ca495991b7852b855"
      [] s = "4BF5122F344554C53BDE2EBB8CD2B7E3D1600AD631C385A5D7CCE23C7785459A"
            -> "4bf5122f344554c53bde2ebb8cd2b7e3d1600ad631c385a5d7cce23c7785459a"
      [] OTHER -> s

\* checksums the download-URL answer can carry: digests of files, the same
\* in upper case, and the empty string
ServerChecksums ==
    {PyStr(Sha256Hex(c)) : c \in FileContents}
        \cup {PyStr(u) : u \in UpperDigests} \cup {PyStr("")}

\* the data object of a download-URL answer
DownloadUrlData ==
    {[url |-> PyStr("https://s3.example/get/f1")],
     [url |-> PyStr("https://s3.example/get/f1"), fileName |-> PyStr("setup.exe"),
      fileSize |-> PyInt(5), expiresAt |-> PyStr("2030-01-01T00:00:00Z")],
     [url |-> PyStr("https://s3.example/get/f1"), checksum |-> None,
      fileName |-> PyStr("setup.exe")],
     [fileName |-> PyStr("setup.exe")],
     EmptyMap}
        \cup {[url |-> PyStr("https://s3.example/get/f1"), checksum |-> c,
               fileName |-> PyStr("setup.exe"), fileSize |-> PyInt(5),
               expiresAt |-> PyStr("2030-01-01T00:00:00Z")] : c \in ServerChecksums}
        \cup {[url |-> PyStr("https://s3.example/get/f2"), checksum |-> c] :
                 c \in ServerChecksums}

\* bodies of the answers to GET /downloads/url
DownloadUrlBodies ==
    { TextBody("<html>502 Bad Gateway</html>"),
      JsonBody("[]", PyList(<<>>)),
      JsonBody("{\"success\": false, \"error\": {\"message\": \"not found\"}}",
               PyDict([success |-> PyBool(FALSE),
                       error |-> PyDict([message |-> PyStr("not found")])])),
      JsonBody("{\"success\": false, \"error\": {\"code\": \"E404\", \"message\": \"not found\"}, \"data\": {\"url\": \"https://s3.example/get/f1\"}}",
               PyDict([success |-> PyBool(FALSE),
                       error |-> PyDict([code |-> PyStr("E404"),
                                         message |-> PyStr("not found")]),
                       data |-> PyDict([url |-> PyStr("https://s3.example/get/f1")])])),
      JsonBody("{\"success\": true}", PyDict([success |-> PyBool(TRUE)])),
      JsonBody("{\"success\": true, \"data\": null, \"error\": \"gone\"}",
               PyDict([success |-> PyBool(TRUE), data |-> None,
                       error |-> PyStr("gone")])),
      JsonBody("{\"success\": true, \"data\": []}",
               PyDict([success |-> PyBool(TRUE), data |-> PyList(<<>>)])) }
        \cup {JsonBody("{\"success\": true, \"data\": {...}}",
                       PyDict([success |-> PyBool(TRUE), data |-> PyDict(d)])) :
                 d \in DownloadUrlData}

\* answers of the storage to the GET of the pre-signed URL
S3GetStatus == {200, 403}
S3GetResponses == {[status_code |-> st, content |-> c] : st \in S3GetStatus, c \in FileContents}

\* params of get_download_url
DownloadUrlParams(application_id, version, file_id) ==
    LET params == [applicationId |-> PyStr(application_id), version |-> PyStr(version)]
    IN PyDict(IF Truthy(file_id) THEN params @@ [fileId |-> file_id] ELSE params)

\* headers of get_download_url
DownloadUrlHeaders(test_channel) ==
    IF test_channel THEN "X-Channel" :> "Test" ELSE NoHeaders

\* the test after the download-URL call without its first half
DownloadUrlFailed_DataOnly(r) == r.data = None

\* the test after the download-URL call:
\* not url_response.success or url_response.data is None
DownloadUrlFailed(r) == ~Truthy(r.success) \/ r.data = None

\* the exception download_file raises when the download-URL call failed
DownloadUrlError(r) ==
    Raise("Exception", "Failed to get download URL: " \o PyFormat(r.error))

\* metadata, built of the data of the download-URL answer
MetadataOf(data) ==
    [fileName |-> DictGet(data, "fileName", None),
     fileSize |-> DictGet(data, "fileSize", None),
     checksum |-> DictGet(data, "checksum", None),
     expiresAt |-> DictGet(data, "expiresAt", None)]

\* response.raise_for_status() raises for the statuses 400..599
RaisesForStatus(status_code) == status_code >= 400 /\ status_code < 600

\* the test before verification without the test of expected_checksum
VerificationRuns_Always(verify_checksum, expected) == verify_checksum

\* the test before verification: verify_checksum and expected_checksum
VerificationRuns(verify_checksum, expected) == verify_checksum /\ Truthy(expected)

\* the comparison of the digests made without regard to case
ChecksumDiffers_IgnoreCase(actual, expected) ==
    IF expected.t = "str" THEN HexLower(actual) # HexLower(expected.s) ELSE TRUE

\* the comparison of the digests: actual_checksum != expected_checksum
ChecksumDiffers(actual, expected) == PyStr(actual) # expected

\* the exception download_file raises when the digests differ
ChecksumMismatchError(expected, actual) ==
    Raise("ValueError",
          "Checksum mismatch: expected " \o PyFormat(expected) \o ", got " \o actual)

\* what download_file does with the downloaded bytes
VerifyAndReturn(verify_checksum, expected, bytes, meta) ==
    IF /\ VerificationRuns(verify_checksum, expected)
       /\ ChecksumDiffers(Sha256Hex(bytes), expected)
    THEN ChecksumMismatchError(expected, Sha256Hex(bytes))
    ELSE Return([content |-> bytes, metadata |-> meta])

\* the call starts
download_file ==
    /\ pc = "idle"
    /\ \E application_id \in AppIds, version \in Versions, file_id \in FileIds,
          test_channel \in BOOLEAN, verify_checksum \in BOOLEAN :
          args' = [fn |-> "download_file", application_id |-> application_id,
                   version |-> version, file_id |-> file_id,
                   test_channel |-> test_channel, verify_checksum |-> verify_checksum]
    /\ FreshLocals
    /\ http_log' = <<>>
    /\ pc' = "get_download_url"
    /\ UNCHANGED <<s3_object, result>>

\* get_download_url, and the reading of its answer
DownloadGetUrl ==
    /\ pc = "get_download_url"
    /\ \E outcome \in Outcomes(ApiResponses(DownloadUrlBodies)) :
          LET call == [application_id |-> args.application_id, version |-> args.version,
                       file_id |-> args.file_id, test_channel |-> args.test_channel]
              r == Decode(outcome)
              data == r.value.data
              url == Subscript(data, "url")
          IN /\ http_log' = Append(http_log,
                    SessionRequest("get_download_url", call, "GET", "/downloads/url",
                        DownloadUrlParams(call.application_id, call.version,
                                          call.file_id),
                        None, DownloadUrlHeaders(call.test_channel), outcome))
             /\ url_response' = IF r.kind = "raise" THEN url_response ELSE r.value
             /\ IF r.kind = "raise"
                THEN /\ result' = r
                     /\ pc' = "done"
                     /\ UNCHANGED <<download_url, expected_checksum, metadata>>
                ELSE IF DownloadUrlFailed(r.value)
                THEN /\ result' = DownloadUrlError(r.value)
                     /\ pc' = "done"
                     /\ UNCHANGED <<download_url, expected_checksum, metadata>>
                ELSE IF url.kind = "raise"
                THEN /\ result' = url
                     /\ pc' = "done"
                     /\ UNCHANGED <<download_url, expected_checksum, metadata>>
                ELSE /\ download_url' = url.value
                     /\ expected_checksum' = DictGet(data, "checksum", None)
                     /\ metadata' = MetadataOf(data)
                     /\ pc' = "download"
                     /\ UNCHANGED result
    /\ UNCHANGED <<args, file_size, checksum, upload_id, upload_url, s3_response,
                   content, s3_object>>

\* download(download_url), then the verification of the checksum
DownloadFetch ==
    /\ pc = "download"
    /\ \E outcome \in Outcomes(S3GetResponses) :
          /\ http_log' = Append(http_log,
                 DirectRequest("download", [url |-> download_url], "GET",
                               download_url.s, NoHeaders, None, outcome))
          /\ IF outcome.kind = "raise"
             THEN /\ result' = outcome
                  /\ UNCHANGED content
             ELSE IF RaisesForStatus(outcome.value.status_code)
             THEN /\ result' = Raise("HTTPError", "raise_for_status")
                  /\ UNCHANGED content
             ELSE /\ content' = outcome.value.content
                  /\ result' = VerifyAndReturn(args.verify_checksum, expected_checksum,
                                               outcome.value.content, metadata)
    /\ pc' = "done"
    /\ UNCHANGED <<args, file_size, checksum, url_response, upload_id, upload_url,
                   s3_response, download_url, expected_checksum, metadata, s3_object>>

----------------------------------------------------------------------------
(* The client as a whole.                                                  *)

Init ==
    /\ pc = "idle"
    /\ args = Unset
    /\ file_size = Unset
    /\ checksum = Unset
    /\ url_response = Unset
    /\ upload_id = Unset
    /\ upload_url = Unset
    /\ s3_response = Unset
    /\ download_url = Unset
    /\ expected_checksum = Unset
    /\ metadata = Unset
    /\ content = Unset
    /\ s3_object = <<>>
    /\ http_log = <<>>
    /\ result = NoResult

\* the caller takes the outcome of the call; the client is ready for the next
Finished ==
    /\ pc = "done"
    /\ pc' = "idle"
    /\ args' = Unset
    /\ FreshLocals
    /\ http_log' = <<>>
    /\ result' = NoResult
    /\ UNCHANGED s3_object

Next ==
    \/ get
    \/ post
    \/ patch
    \/ delete
    \/ upload_large_file
    \/ UploadGetUrl
    \/ UploadPutBinary
    \/ UploadComplete
    \/ download_file
    \/ DownloadGetUrl
    \/ DownloadFetch
    \/ Finished

Spec == Init /\ [][Next]_vars

----------------------------------------------------------------------------
(* What the properties below read off a state.                             *)

\* the call fn is running or has just ended
Running(fn) == pc # "idle" /\ args.fn = fn

\* the network answered the request with a response (the transport did not raise)
Answered(request) == request.answer.kind = "return"

\* the response's body is not JSON
NonJson(resp) == resp.json.kind = "raise"

\* the names of the client methods that issued the requests of the log, in order
FnsOf(log) == [i \in DOMAIN log |-> log[i].fn]

IsPrefix(s, t) == Len(s) <= Len(t) /\ \A i \in DOMAIN s : s[i] = t[i]

UploadSteps == <<"get_large_upload_url", "put_binary", "complete_large_upload">>

\* every response the session decoded in this call, with what became of it:
\* the result of a one-request call, url_response (or the exception raised
\* in its place) of upload_large_file and download_file, and the result of
\* the completion step
Decodings ==
    IF pc = "idle" \/ http_log = <<>> THEN {}
    ELSE IF args.fn \in {"get", "post", "patch", "delete"}
    THEN {[resp |-> http_log[1].answer.value, out |-> result] :
              x \in {y \in {1} : Answered(http_log[1])}}
    ELSE {[resp |-> http_log[1].answer.value,
           out |-> IF url_response = Unset THEN result ELSE Return(url_response)] :
              x \in {y \in {1} : Answered(http_log[1])}}
         \cup {[resp |-> http_log[3].answer.value, out |-> result] :
                  x \in {y \in {1} : Len(http_log) = 3 /\ Answered(http_log[3])}}

\* the JSON value the download-URL answer carried as data
ReportedData == http_log[1].answer.value.json.value.d["data"]

\* the download-URL call succeeded and the storage GET delivered bytes
Downloaded ==
    /\ Running("download_file")
    /\ pc = "done"
    /\ Len(http_log) = 2
    /\ Answered(http_log[2])
    /\ ~RaisesForStatus(http_log[2].answer.value.status_code)

----------------------------------------------------------------------------
(* Properties of upload_large_file.                                        *)

\* C1: when get_large_upload_url returns an ApiResponse that is not
\* successful, upload_large_file ends there, returns that very ApiResponse,
\* and has called neither put_binary nor complete_large_upload.
C1_FailedUrlResponseReturnedUnchanged ==
    (/\ Running("upload_large_file")
     /\ url_response # Unset
     /\ ~Truthy(url_response.success))
    => /\ pc = "done"
       /\ result = Return(url_response)
       /\ result = from_response(http_log[1].answer.value)
       /\ FnsOf(http_log) = <<"get_large_upload_url">>

\* C1 witness: an unsuccessful answer that nevertheless carries an upload URL
\* was returned as it came
C1_Witness ==
    /\ Running("upload_large_file")
    /\ pc = "done"
    /\ url_response # Unset
    /\ url_response.success = PyBool(FALSE)
    /\ url_response.data # None
    /\ result = Return(url_response)

\* C2: when the storage answers the PUT with a status other than 200,
\* complete_large_upload is never called and the result is the failure
\* {success: false, status_code: <storage status>, data: null, meta: null,
\* error: {message: "S3 upload failed: " + <storage body>},
\* raw: {error: <storage body>}}.
C2_StorageFailureSynthesized ==
    (/\ Running("upload_large_file")
     /\ s3_response # Unset
     /\ s3_response.status_code # 200)
    => /\ pc = "done"
       /\ "complete_large_upload" \notin {http_log[i].fn : i \in DOMAIN http_log}
       /\ s3_response = http_log[2].answer.value
       /\ result = Return([success |-> PyBool(FALSE),
                           status_code |-> s3_response.status_code,
                           data |-> None,
                           error |-> PyDict([message |->
                               PyStr("S3 upload failed: " \o s3_response.text)]),
                           meta |-> None,
                           raw |-> PyDict([error |-> PyStr(s3_response.text)])])

\* C2 witness: the storage answered 204 with a body, and the failure was returned
C2_Witness ==
    /\ Running("upload_large_file")
    /\ pc = "done"
    /\ s3_response # Unset
    /\ s3_response.status_code = 204
    /\ s3_response.text # ""
    /\ result.kind = "return"
    /\ result.value.error = PyDict([message |->
           PyStr("S3 upload failed: <Error>AccessDenied</Error>")])

\* C3: file_size and checksum are those of the content from before the first
\* request on and do not change; the request-URL call carries that file size,
\* and every completion call carries SHA-256(content) and the same file size,
\* whatever the servers answered and whatever the storage kept.
C3_ChecksumComputedUpFront ==
    Running("upload_large_file")
    => /\ checksum = PyStr(Sha256Hex(args.file_content))
       /\ file_size = PyInt(Len(args.file_content))
       /\ \A i \in DOMAIN http_log :
             /\ http_log[i].fn = "get_large_upload_url"
                   => http_log[i].json.d["fileSize"] = PyInt(Len(args.file_content))
             /\ http_log[i].fn = "complete_large_upload"
                   => /\ http_log[i].json.d["checksum"]
                            = PyStr(Sha256Hex(args.file_content))
                      /\ http_log[i].json.d["fileSize"] = PyInt(Len(args.file_content))
                      /\ http_log[i].json.d["fileSize"] = http_log[1].json.d["fileSize"]

\* C3 witness: the completion call was made although the storage kept other
\* bytes than the content
C3_Witness ==
    /\ Running("upload_large_file")
    /\ Len(http_log) = 3
    /\ args.file_content = <<0, 1>>
    /\ s3_object = <<1>>
    /\ http_log[3].json.d["checksum"]
          = PyStr("b413f47d13ee2fe6c845b2ee141af81de858df4ec549a58b7970bb96645bc8d2")

\* C4: the requests of upload_large_file are a prefix of request-URL, storage
\* PUT, completion (none is repeated); when the request-URL call succeeded
\* and the PUT returned 200 all three were made, the PUT went to the URL of
\* step 1 with the content, complete_large_upload got the uploadId of step 1
\* and the caller's application id, version, file name and release notes, and
\* the outcome of the completion call is the result, unmodified.
C4_ThreeStepsInOrder ==
    Running("upload_large_file")
    => /\ IsPrefix(FnsOf(http_log), UploadSteps)
       /\ (pc = "done" /\ s3_response # Unset /\ s3_response.status_code = 200)
          => /\ FnsOf(http_log) = UploadSteps
             /\ LET granted == http_log[1].answer.value.json.value.d["data"]
                    put == http_log[2]
                    completion == http_log[3]
                IN /\ put.url = granted.d["uploadUrl"].s
                   /\ put.data = args.file_content
                   /\ completion.call.upload_id = granted.d["uploadId"]
                   /\ completion.call.application_id = args.application_id
                   /\ completion.call.version = args.version
                   /\ completion.call.file_name = args.file_name
                   /\ completion.call.release_notes = args.release_notes
                   /\ completion.json.d["uploadId"] = granted.d["uploadId"]
                   /\ completion.json.d["applicationId"] = PyStr(args.application_id)
                   /\ completion.json.d["version"] = PyStr(args.version)
                   /\ completion.json.d["fileName"] = PyStr(args.file_name)
                   /\ ("releaseNotes" \in DOMAIN completion.json.d)
                         = Truthy(args.release_notes)
                   /\ Truthy(args.release_notes)
                         => completion.json.d["releaseNotes"] = args.release_notes
                   /\ result = Decode(completion.answer)

\* C4 witness: a full upload whose completion call reported a failure, which
\* was returned
C4_Witness ==
    /\ Running("upload_large_file")
    /\ pc = "done"
    /\ FnsOf(http_log) = UploadSteps
    /\ args.release_notes = PyStr("first release")
    /\ http_log[3].call.upload_id = PyStr("u2")
    /\ result.kind = "return"
    /\ result.value.success = PyBool(FALSE)
    /\ result.value.status_code = 403

----------------------------------------------------------------------------
(* Properties of ApiResponse.from_response.                                *)

\* C5: a response whose body is not JSON is decoded without an exception to
\* success = False, data = None, meta = None, error.message = the body text
\* and status_code = the transport status.
C5_NonJsonBodyDecoded ==
    \A d \in Decodings :
        NonJson(d.resp)
        => /\ d.out.kind = "return"
           /\ d.out.value.success = PyBool(FALSE)
           /\ d.out.value.data = None
           /\ d.out.value.meta = None
           /\ d.out.value.error.t = "dict"
           /\ d.out.value.error.d["message"] = PyStr(d.resp.text)
           /\ d.out.value.status_code = d.resp.status_code

\* C5 witness: an HTML error page with status 403 was decoded by get
C5_Witness ==
    /\ Running("get")
    /\ pc = "done"
    /\ Answered(http_log[1])
    /\ http_log[1].answer.value.text = "<html>502 Bad Gateway</html>"
    /\ http_log[1].answer.value.status_code = 403
    /\ result.kind = "return"
    /\ result.value.error = PyDict([message |-> PyStr("<html>502 Bad Gateway</html>")])

\* C6 as stated: for a body that is not JSON, raw is {error: <body text>}.
C6_RawIsErrorText ==
    \A d \in Decodings :
        NonJson(d.resp)
        => /\ d.out.kind = "return"
           /\ d.out.value.raw = PyDict([error |-> PyStr(d.resp.text)])

\* C6 as amended: for a body that is not JSON, raw is the synthesized
\* envelope {success: False, error: {message: <body text>}}.
C6_RawIsSynthesizedEnvelope ==
    \A d \in Decodings :
        NonJson(d.resp)
        => /\ d.out.kind = "return"
           /\ d.out.value.raw = PyDict([success |-> PyBool(FALSE),
                                        error |-> PyDict([message |-> PyStr(d.resp.text)])])

\* C6 witness: post decoded an HTML error page
C6_Witness ==
    /\ Running("post")
    /\ pc = "done"
    /\ Answered(http_log[1])
    /\ NonJson(http_log[1].answer.value)
    /\ http_log[1].answer.value.text # ""
    /\ result.kind = "return"
    /\ "success" \in DOMAIN result.value.raw.d

\* C7 as stated: a response whose body is JSON, of whatever shape, is decoded
\* without an exception: success, data, error and meta are the values of
\* these keys, or False, None, None and None where the key is absent, raw is
\* the decoded value and status_code the transport status.
C7_AnyJsonShapeDecoded ==
    \A d \in Decodings :
        ~NonJson(d.resp)
        => LET v == d.resp.json.value
               Field(key, default) ==
                   IF v.t = "dict" /\ key \in DOMAIN v.d THEN v.d[key] ELSE default
           IN /\ d.out.kind = "return"
              /\ d.out.value.success = Field("success", PyBool(FALSE))
              /\ d.out.value.data = Field("data", None)
              /\ d.out.value.error = Field("error", None)
              /\ d.out.value.meta = Field("meta", None)
              /\ d.out.value.raw = v
              /\ d.out.value.status_code = d.resp.status_code

\* what holds of C7: the same, for the bodies that are JSON objects
C7_JsonObjectDecoded ==
    \A d \in Decodings :
        (~NonJson(d.resp) /\ d.resp.json.value.t = "dict")
        => LET v == d.resp.json.value
               Field(key, default) == IF key \in DOMAIN v.d THEN v.d[key] ELSE default
           IN /\ d.out.kind = "return"
              /\ d.out.value.success = Field("success", PyBool(FALSE))
              /\ d.out.value.data = Field("data", None)
              /\ d.out.value.error = Field("error", None)
              /\ d.out.value.meta = Field("meta", None)
              /\ d.out.value.raw = v
              /\ d.out.value.status_code = d.resp.status_code

----------------------------------------------------------------------------
(* Properties of download_file.                                            *)

\* C8: when get_download_url returns an ApiResponse that is unsuccessful or
\* has no data, download_file ends by raising the download-URL error, whose
\* message carries the error of the envelope, and the storage GET is not
\* issued.
C8_FailedDownloadUrlRaises ==
    (/\ Running("download_file")
     /\ url_response # Unset
     /\ (~Truthy(url_response.success) \/ url_response.data = None))
    => /\ pc = "done"
       /\ result.kind = "raise"
       /\ result.type = "Exception"
       /\ result.message
             = "Failed to get download URL: " \o PyFormat(url_response.error)
       /\ FnsOf(http_log) = <<"get_download_url">>

\* C8 witness: an unsuccessful answer that carries a URL made the call raise
\* with the error of the envelope
C8_Witness ==
    /\ Running("download_file")
    /\ pc = "done"
    /\ url_response # Unset
    /\ url_response.success = PyBool(FALSE)
    /\ url_response.data # None
    /\ result.kind = "raise"
    /\ result.message
          = "Failed to get download URL: {'code': 'E404', 'message': 'not found'}"

\* C9 as stated: with verify_checksum, whenever the download-URL answer
\* carries a checksum (a string) and the digest of the downloaded bytes is
\* not equal to it, the call raises the mismatch error with both digests;
\* when they are equal the bytes are returned.
C9_MismatchRaises ==
    (/\ Downloaded
     /\ args.verify_checksum
     /\ "checksum" \in DOMAIN ReportedData.d
     /\ ReportedData.d["checksum"].t = "str")
    => LET expected == ReportedData.d["checksum"].s
           bytes == http_log[2].answer.value.content
       IN IF Sha256Hex(bytes) # expected
          THEN /\ result.kind = "raise"
               /\ result.type = "ValueError"
               /\ result.message = "Checksum mismatch: expected " \o expected
                                      \o ", got " \o Sha256Hex(bytes)
          ELSE /\ result.kind = "return"
               /\ result.value.content = bytes

\* C9 as amended: the same, whenever the checksum the answer carries is a
\* string that is not empty.
C9_NonEmptyMismatchRaises ==
    (/\ Downloaded
     /\ args.verify_checksum
     /\ "checksum" \in DOMAIN ReportedData.d
     /\ ReportedData.d["checksum"].t = "str"
     /\ ReportedData.d["checksum"].s # "")
    => LET expected == ReportedData.d["checksum"].s
           bytes == http_log[2].answer.value.content
       IN IF Sha256Hex(bytes) # expected
          THEN /\ result.kind = "raise"
               /\ result.type = "ValueError"
               /\ result.message = "Checksum mismatch: expected " \o expected
                                      \o ", got " \o Sha256Hex(bytes)
          ELSE /\ result.kind = "return"
               /\ result.value.content = bytes

\* C9 witness: the expected checksum was the digest of the downloaded bytes
\* in upper case, and the call raised
C9_Witness ==
    /\ Downloaded
    /\ args.verify_checksum
    /\ http_log[2].answer.value.content = <<1>>
    /\ expected_checksum
          = PyStr("4BF5122F344554C53BDE2EBB8CD2B7E3D1600AD631C385A5D7CCE23C7785459A")
    /\ result.kind = "raise"
    /\ result.type = "ValueError"

\* C10: when the download-URL answer succeeds without a checksum (the key is
\* absent or null) and the storage GET succeeds, the call returns the bytes
\* for both values of verify_checksum, and the metadata are the fileName,
\* fileSize, checksum and expiresAt of the answer, None where absent.
C10_NoChecksumReturnsReportedMetadata ==
    (/\ Downloaded
     /\ ("checksum" \in DOMAIN ReportedData.d => ReportedData.d["checksum"] = None))
    => LET Reported(key) ==
               IF key \in DOMAIN ReportedData.d THEN ReportedData.d[key] ELSE None
       IN /\ result.kind = "return"
          /\ result.value.content = http_log[2].answer.value.content
          /\ result.value.metadata = [fileName |-> Reported("fileName"),
                                      fileSize |-> Reported("fileSize"),
                                      checksum |-> None,
                                      expiresAt |-> Reported("expiresAt")]

\* C10 witness: verification was asked for, the answer had no checksum, and
\* the metadata report a file size that is not the length of the bytes
C10_Witness ==
    /\ Downloaded
    /\ args.verify_checksum
    /\ "checksum" \notin DOMAIN ReportedData.d
    /\ result.kind = "return"
    /\ result.value.content = <<0, 1>>
    /\ result.value.metadata.fileSize = PyInt(5)
    /\ result.value.metadata.checksum = None

----------------------------------------------------------------------------
(* Properties of the transport.                                            *)

\* the client methods whose requests go to the control-plane API
ControlPlaneFns ==
    {"get", "post", "patch", "delete", "get_large_upload_url",
     "complete_large_upload", "get_download_url"}

\* the client methods whose requests go to a pre-signed storage URL
StorageFns == {"put_binary", "download"}

C11_UploadWitness ==
    /\ Running("upload_large_file")
    /\ Len(http_log) = 3
    /\ DOMAIN http_log[2].headers = {"Content-Type"}
    /\ http_log[3].headers["Authorization"] = "Bearer tenant.secret"

\* C12 as stated: whenever upload_large_file returns an ApiResponse with
\* success = True, the storage PUT was issued and answered 200 and the
\* completion call was made in this call.
C12_SuccessMeansUploaded ==
    (/\ Running("upload_large_file")
     /\ pc = "done"
     /\ result.kind = "return"
     /\ result.value.success = PyBool(TRUE))
    => /\ FnsOf(http_log) = UploadSteps
       /\ Answered(http_log[2])
       /\ http_log[2].answer.value.status_code = 200

\* what holds of C12: the same, whenever the request-URL answer carried data
C12_SuccessWithDataMeansUploaded ==
    (/\ Running("upload_large_file")
     /\ pc = "done"
     /\ result.kind = "return"
     /\ result.value.success = PyBool(TRUE)
     /\ url_response.data # None)
    => /\ FnsOf(http_log) = UploadSteps
       /\ Answered(http_log[2])
       /\ http_log[2].answer.value.status_code = 200

====
